---- MODULE Spec2Model ----
(***************************************************************************)
(* Model of the backup loop of src/display-data.py (backup_tables) and of  *)
(* the table scanner of src/force.py: the candidate generator              *)
(* (generate_table_variations), the probe classifier (check_table_exists), *)
(* the batch scan (comprehensive_table_scan) and the part of main that     *)
(* drives them.                                                            *)
(*                                                                         *)
(* A table name is a sequence of one-character strings, so that endswith,  *)
(* slicing, concatenation and Python's lexicographic sort are computed as  *)
(* the code computes them.                                                 *)
(***************************************************************************)
EXTENDS Integers, Sequences, FiniteSets, TLC

VARIABLES
    seeds,          \* the list literal assigned to self.common_tables (lines 30-91)
    common_tables,  \* self.common_tables
    variations,     \* generate_table_variations' working set after the singular step
    transport,      \* the responses the endpoint can give in this run
    table_rows,     \* the rows a response with rows carries in this run
    results,        \* comprehensive_table_scan's results dict
    i,              \* the outer loop's index (line 200)
    batch,          \* the current batch (line 201)
    j,              \* position in batch of the table the inner loop is at (line 205)
    probe_log,      \* the scan's calls of check_table_exists: name, response, result
    progress,       \* the "Scanning batch k/total" lines printed (line 203)
    batches,        \* the batches the outer loop has taken, in order
    events,         \* what the scan has done so far, in order: progress lines
                    \* printed, requests sent, responses received, sleeps
    scan_results,   \* main's scan_results: << >> until the scan has returned
    detailed_accessible, \* display_comprehensive_results' detailed_accessible (line 392)
    schema_log,     \* display's calls of get_table_schema_info: name, response, result
    accessible_tables,   \* main's accessible_tables (line 460)
    intelligent_results, \* main's intelligent_results (line 463)
    confirmed_tables,    \* intelligent_table_discovery's confirmed_tables (line 307)
    discovery_log,  \* the tables intelligent_table_discovery passes to check_table_exists (line 309)
    report,         \* the results file: << >> until it is written (lines 474-485)
    selected_tables,     \* backup_tables' argument (src/display-data.py line 351)
    backup_summary, \* backup_tables' backup_summary (line 366)
    backed_up,      \* how many tables the loop of line 368 has gone through
    summary_file,   \* backup_summary.json: << >> until it is written (lines 443-451)
    pc              \* position of the program

(***************************************************************************)
(* Bounds of the model.                                                    *)
(***************************************************************************)
MaxSeeds == 2       \* longest seed vocabulary drawn
MaxPrefixes == 2    \* how many entries of the code's prefix list are applied
MaxSuffixes == 2    \* how many entries of the code's suffix list are applied
MaxCandidates == 2  \* longest candidate list scanned against an arbitrary endpoint
MaxLong == 21       \* longest candidate list scanned against a uniform endpoint
MaxGuesses == 2     \* how many entries of the code's list of guesses are probed
MaxRows == 3        \* most rows of a table whose schema is inferred from any rows
MaxSelected == 2    \* most tables in a selection that is backed up

(***************************************************************************)
(* Strings.                                                                *)
(***************************************************************************)
Alphabet ==
    << "_", "a", "b", "c", "d", "e", "f", "g", "h", "i", "j", "k", "l", "m",
       "n", "o", "p", "q", "r", "s", "t", "u", "v", "w", "x", "y", "z" >>

\* ord(): the code point order of the characters table names are made of
\* ('_' sorts before every lowercase letter).
Ord == [c \in {Alphabet[n] : n \in 1..Len(Alphabet)} |->
            CHOOSE n \in 1..Len(Alphabet) : Alphabet[n] = c]

Min(a, b) == IF a < b THEN a ELSE b

\* str.endswith
endswith(s, suffix) ==
    /\ Len(s) >= Len(suffix)
    /\ SubSeq(s, Len(s) - Len(suffix) + 1, Len(s)) = suffix

\* s[:-n]
DropLast(s, n) == SubSeq(s, 1, Len(s) - n)

\* Python's str.__lt__: lexicographic by code point, a proper prefix first.
\* first is the first place where the two differ, or one past the shorter.
StrLess(a, b) ==
    LET n == Min(Len(a), Len(b))
        first == CHOOSE k \in 1..(n + 1) :
                    /\ k = n + 1 \/ a[k] # b[k]
                    /\ \A m \in 1..(k - 1) : a[m] = b[m]
    IN  IF first = n + 1 THEN Len(a) < Len(b)
        ELSE Ord[a[first]] < Ord[b[first]]

\* sorted(list(a_set)): each name with its place, which is one more than the
\* number of names before it, then the sequence that has each name at its place.
sorted(S) ==
    LET ranked == {<< Cardinality({y \in S : StrLess(y, x)}) + 1, x >> : x \in S}
    IN  [k \in 1..Cardinality(S) |-> (CHOOSE p \in ranked : p[1] = k)[2]]

\* set(a_list)
ToSet(s) == {s[n] : n \in 1..Len(s)}

(***************************************************************************)
(* generate_table_variations (lines 96-122).                               *)
(***************************************************************************)
all_prefixes ==
    << << "a", "p", "p", "_" >>,
       << "u", "s", "e", "r", "_" >>,
       << "a", "d", "m", "i", "n", "_" >>,
       << "s", "y", "s", "_" >>,
       << "t", "m", "p", "_" >>,
       << "o", "l", "d", "_" >>,
       << "n", "e", "w", "_" >> >>

all_suffixes ==
    << << "_", "d", "a", "t", "a" >>,
       << "_", "i", "n", "f", "o" >>,
       << "_", "d", "e", "t", "a", "i", "l", "s" >>,
       << "_", "l", "o", "g" >>,
       << "_", "h", "i", "s", "t", "o", "r", "y" >> >>

prefixes == SubSeq(all_prefixes, 1, Min(MaxPrefixes, Len(all_prefixes)))
suffixes == SubSeq(all_suffixes, 1, Min(MaxSuffixes, Len(all_suffixes)))

\* singular_of without the length test of line 102.
singular_of_any_length(table) ==
    IF endswith(table, << "s" >>)
        THEN {DropLast(table, 1)}
    ELSE IF endswith(table, << "i", "e", "s" >>)
        THEN {DropLast(table, 3) \o << "y" >>}
    ELSE {}

\* One pass of the loop at lines 101-107 for one table: the names it adds.
singular_of(table) ==
    IF endswith(table, << "s" >>) /\ Len(table) > 3
        THEN {DropLast(table, 1)}
    ELSE IF endswith(table, << "i", "e", "s" >>)
        THEN {DropLast(table, 3) \o << "y" >>}
    ELSE {}

\* add_singular_forms starting from an empty set instead of set(common_tables).
add_singular_forms_only(tables) ==
    UNION {IF singular_of(tables[n]) = {} THEN {tables[n]} ELSE singular_of(tables[n])
           : n \in 1..Len(tables)}

\* Lines 98-107: variations = set(common_tables), plus the singular forms.
add_singular_forms(tables) ==
    ToSet(tables) \cup UNION {singular_of(tables[n]) : n \in 1..Len(tables)}

\* Lines 111-113: for each prefix in turn, every name of the set as it is then.
RECURSIVE add_prefixes(_, _)
add_prefixes(vs, k) ==
    IF k > Len(prefixes) THEN vs
    ELSE add_prefixes(vs \cup {prefixes[k] \o t : t \in vs}, k + 1)

\* Lines 117-119: for each suffix in turn, every name of the set as it is then.
RECURSIVE add_suffixes(_, _)
add_suffixes(vs, k) ==
    IF k > Len(suffixes) THEN vs
    ELSE add_suffixes(vs \cup {t \o suffixes[k] : t \in vs}, k + 1)

generate_table_variations(tables) ==
    sorted(add_suffixes(add_prefixes(add_singular_forms(tables), 1), 1))

(***************************************************************************)
(* The seed vocabularies the constructor is run on.                        *)
(***************************************************************************)
S_categories == << "c", "a", "t", "e", "g", "o", "r", "i", "e", "s" >>
S_posts == << "p", "o", "s", "t", "s" >>
S_data == << "d", "a", "t", "a" >>
S_as == << "a", "s" >>
S_bus == << "b", "u", "s" >>
S_ies == << "i", "e", "s" >>
S_cart == << "c", "a", "r", "t" >>
S_ys == << "y", "s" >>
S_accounts == << "a", "c", "c", "o", "u", "n", "t", "s" >>

SeedPool == {S_categories, S_posts, S_data, S_as, S_bus, S_ies, S_cart, S_ys}

SeedLists == UNION {[1..n -> SeedPool] : n \in 0..MaxSeeds}

(***************************************************************************)
(* The endpoint: what requests.get can do for one probe (lines 127-132).   *)
(* exc is the exception requests.get raises ("none": it returns), body is  *)
(* what the response carries: a record collection with rows, an empty one, *)
(* or text that is not JSON.                                               *)
(***************************************************************************)
Response(exc, status_code, body) ==
    [exc |-> exc, status_code |-> status_code, body |-> body]

Responses ==
    {Response("none", 200, b) : b \in {"rows", "empty", "malformed"}}
    \cup {Response("none", c, "none") : c \in {401, 403, 404, 500}}
    \cup {Response("Timeout", 0, "none"), Response("ConnectionError", 0, "none")}

\* response.json() taking any text for a collection.
response_json_lenient(resp) ==
    [raised |-> FALSE, value |-> resp.body]

\* response.json(): the parsed body, or a ValueError when the body is not JSON.
response_json(resp) ==
    [raised |-> resp.body = "malformed", value |-> resp.body]

(***************************************************************************)
(* check_table_exists (lines 124-183).  The dict it returns, with          *)
(* exists one of "True", "False", "None"; a key the dict does not have is  *)
(* NoKey.  raised says that the call left by an exception instead of       *)
(* returning, which the except clauses of lines 170-183 rule out.          *)
(***************************************************************************)
NoKey == "<no key>"

Returned(exists, accessible, status_code, error, sample_data) ==
    [raised |-> FALSE, exists |-> exists, accessible |-> accessible,
     status_code |-> status_code, error |-> error, sample_data |-> sample_data]

Raised(error) ==
    [raised |-> TRUE, exists |-> "None", accessible |-> FALSE,
     status_code |-> 0, error |-> error, sample_data |-> NoKey]

\* Lines 134-168: the body of the try block once requests.get has returned.
\* The result's raised is TRUE when response.json() raises inside it.
status_branches(resp) ==
    IF resp.status_code = 200 THEN
        IF response_json(resp).raised
            THEN Raised("JSONDecodeError")
            ELSE Returned("True", TRUE, 200, NoKey, response_json(resp).value)
    ELSE IF resp.status_code = 401 THEN
        Returned("True", FALSE, 401, "Authentication required", NoKey)
    ELSE IF resp.status_code = 403 THEN
        Returned("True", FALSE, 403, "Access forbidden", NoKey)
    ELSE IF resp.status_code = 404 THEN
        Returned("False", FALSE, 404, "Table not found", NoKey)
    ELSE
        Returned("True", FALSE, resp.status_code,
                 "HTTP " \o ToString(resp.status_code), NoKey)

\* Lines 126-133: what the try block ends with, before the except clauses.
try_block(resp) ==
    IF resp.exc # "none" THEN Raised(resp.exc) ELSE status_branches(resp)

\* except_clauses with the Timeout clause answering 'exists': False.
except_clauses_timeout_absent(attempt) ==
    IF ~attempt.raised THEN attempt
    ELSE IF attempt.error = "Timeout"
        THEN Returned("False", FALSE, 0, "Timeout", NoKey)
    ELSE Returned("None", FALSE, 0, attempt.error, NoKey)

\* except_clauses without the except Exception clause of lines 177-183.
except_clauses_timeout_only(attempt) ==
    IF ~attempt.raised THEN attempt
    ELSE IF attempt.error = "Timeout"
        THEN Returned("None", FALSE, 0, "Timeout", NoKey)
    ELSE attempt

\* Lines 170-183: except Timeout, then except Exception.
except_clauses(attempt) ==
    IF ~attempt.raised THEN attempt
    ELSE IF attempt.error = "Timeout"
        THEN Returned("None", FALSE, 0, "Timeout", NoKey)
    ELSE Returned("None", FALSE, 0, attempt.error, NoKey)

check_table_exists(resp) == except_clauses(try_block(resp))

\* Python's truth value of result['exists']
Truthy(exists) == exists = "True"

(***************************************************************************)
(* comprehensive_table_scan (lines 185-232).                               *)
(***************************************************************************)
batch_size == 10

EmptyResults ==
    [accessible |-> << >>, protected |-> << >>, unknown |-> << >>,
     not_found |-> << >>]

\* batch_slice with the slice one short: [i:i + batch_size - 1].
batch_slice_short(tables, start) ==
    SubSeq(tables, start + 1, Min(start + batch_size - 1, Len(tables)))

\* Line 201: self.common_tables[i:i + batch_size], i counted from 0.
batch_slice(tables, start) ==
    SubSeq(tables, start + 1, Min(start + batch_size, Len(tables)))

\* Line 203: the batch number and the number of batches printed.
progress_line(start, total_tables) ==
    [index |-> (start \div batch_size) + 1,
     total |-> (total_tables + batch_size - 1) \div batch_size]

\* One thing the scan does that can be seen from outside it.
Event(kind, table_name, index) == [kind |-> kind, name |-> table_name, index |-> index]

\* Lines 127-132 called at line 206: requests.get sends the request and
\* blocks until the response is there or the call raises.
requests_get(table_name) ==
    << Event("request", table_name, 0), Event("response", table_name, 0) >>

\* The scan without line 230.
time_sleep_left_out == << >>

\* Line 230: time.sleep(0.1)
time_sleep == << Event("sleep", << >>, 0) >>

\* Lines 208-227: where the scan puts one result.
record_result(res, table_name, result) ==
    IF Truthy(result.exists) /\ result.accessible THEN
        [res EXCEPT !.accessible =
            Append(@, [name |-> table_name, sample_data |-> result.sample_data])]
    ELSE IF Truthy(result.exists) /\ ~result.accessible THEN
        [res EXCEPT !.protected =
            Append(@, [name |-> table_name, error |-> result.error,
                       status_code |-> result.status_code])]
    ELSE IF result.exists = "None" THEN
        [res EXCEPT !.unknown =
            Append(@, [name |-> table_name, error |-> result.error])]
    ELSE res

(***************************************************************************)
(* intelligent_table_discovery (lines 282-315).                            *)
(***************************************************************************)
related_to_profiles ==
    << << "u", "s", "e", "r", "s" >>,
       << "a", "c", "c", "o", "u", "n", "t", "s" >>,
       << "a", "u", "t", "h" >>,
       << "s", "e", "s", "s", "i", "o", "n", "s" >>,
       << "u", "s", "e", "r", "_", "s", "e", "t", "t", "i", "n", "g", "s" >>,
       << "u", "s", "e", "r", "_", "r", "o", "l", "e", "s" >>,
       << "p", "e", "r", "m", "i", "s", "s", "i", "o", "n", "s" >>,
       << "u", "s", "e", "r", "_", "p", "r", "o", "f", "i", "l", "e", "s" >> >>

related_to_payments ==
    << << "t", "r", "a", "n", "s", "a", "c", "t", "i", "o", "n", "s" >>,
       << "o", "r", "d", "e", "r", "s" >>,
       << "i", "n", "v", "o", "i", "c", "e", "s" >>,
       << "p", "r", "o", "d", "u", "c", "t", "s" >>,
       << "c", "u", "s", "t", "o", "m", "e", "r", "s" >>,
       << "r", "e", "c", "e", "i", "p", "t", "s" >>,
       << "p", "a", "y", "m", "e", "n", "t", "_", "m", "e", "t", "h", "o", "d", "s" >>,
       << "s", "u", "b", "s", "c", "r", "i", "p", "t", "i", "o", "n", "s" >> >>

\* The two anchors, 'profiles' and 'payments' (lines 287, 292 and 300).
profiles == << "p", "r", "o", "f", "i", "l", "e", "s" >>
payments == << "p", "a", "y", "m", "e", "n", "t", "s" >>

\* Line 287: found_tables is a literal, not what the scan found.
found_tables == << profiles, payments >>

\* Lines 289-305: the related names of each anchor that is in found_tables.
all_guesses ==
    (IF profiles \in ToSet(found_tables) THEN related_to_profiles ELSE << >>)
    \o (IF payments \in ToSet(found_tables) THEN related_to_payments ELSE << >>)

intelligent_guesses == SubSeq(all_guesses, 1, Min(MaxGuesses, Len(all_guesses)))

\* Lines 310-311: a guess whose probe says exists and accessible is appended
\* to the confirmed tables.
confirm(confirmed, table, result) ==
    IF Truthy(result.exists) /\ result.accessible
        THEN Append(confirmed, table)
        ELSE confirmed

(***************************************************************************)
(* get_table_schema_info (lines 317-374).  A JSON value is its Python type *)
(* name and its text; a row is the list of its items in the order of the   *)
(* JSON object, which is the order of dict.keys().                         *)
(***************************************************************************)
Val(type, repr) == [type |-> type, repr |-> repr]

None == Val("NoneType", "None")

Item(key, value) == [key |-> key, value |-> value]

\* list(row.keys())
keys(row) == [n \in 1..Len(row) |-> row[n].key]

\* row.get(col)
row_get(row, col) ==
    IF \E n \in 1..Len(row) : row[n].key = col
        THEN row[CHOOSE n \in 1..Len(row) : row[n].key = col].value
        ELSE None

\* Line 337: [row.get(col) for row in data[:5] if row.get(col) is not None]
sample_values_of(col, data) ==
    LET first_rows == SubSeq(data, 1, Min(5, Len(data)))
        got == [n \in 1..Len(first_rows) |-> row_get(first_rows[n], col)]
        is_not_None(v) == v # None
    IN  SelectSeq(got, is_not_None)

\* list.count
count(a_list, x) == Cardinality({n \in 1..Len(a_list) : a_list[n] = x})

\* Line 341: max(set(value_types), key=value_types.count) is the first type
\* of greatest count in the set's iteration order, and a set of str iterates
\* in the order of the hashes, which differ from one run to the next: every
\* type of greatest count is a possible value.
most_common_types(value_types) ==
    {t \in ToSet(value_types) :
        \A u \in ToSet(value_types) : count(value_types, u) <= count(value_types, t)}

\* Lines 337-347: the dicts column_info[col] can be.
column_info_of(col, data) ==
    LET sample_values == sample_values_of(col, data)
        value_types == [n \in 1..Len(sample_values) |-> sample_values[n].type]
    IN  IF sample_values # << >>
            THEN {[type |-> t,
                   sample_values |-> SubSeq(sample_values, 1, Min(3, Len(sample_values)))]
                  : t \in most_common_types(value_types)}
            ELSE {[type |-> "unknown", sample_values |-> << >>]}

\* Lines 335-347: the dicts column_info can be, over the columns of row 0.
column_infos(columns, data) ==
    LET cols == ToSet(columns)
    IN  {f \in [cols -> UNION {column_info_of(c, data) : c \in cols}] :
            \A c \in cols : f[c] \in column_info_of(c, data)}

\* {}: a dict without keys.
EmptyDict == [c \in {} |-> c]

SchemaInfo(success, columns, column_info, sample_count, sample_data, error) ==
    [success |-> success, columns |-> columns, column_info |-> column_info,
     sample_count |-> sample_count, sample_data |-> sample_data, error |-> error]

SchemaFailure(error) == SchemaInfo(FALSE, NoKey, NoKey, NoKey, NoKey, error)

\* analyse taking an empty body for a failure.
analyse_rows_only(data) ==
    IF data # << >>
        THEN {SchemaInfo(TRUE, keys(data[1]), f, Len(data), data, NoKey)
              : f \in column_infos(keys(data[1]), data)}
        ELSE {SchemaInfo(FALSE, NoKey, NoKey, NoKey, NoKey, "no rows")}

\* Lines 330-363: the dicts returned for a parsed body.
analyse(data) ==
    IF data # << >>
        THEN {SchemaInfo(TRUE, keys(data[1]), f, Len(data), data, NoKey)
              : f \in column_infos(keys(data[1]), data)}
        ELSE {SchemaInfo(TRUE, << >>, EmptyDict, 0, << >>, NoKey)}

\* The dicts get_table_schema_info can return when requests.get does resp
\* and a body with rows carries rows.
get_table_schema_info(resp, rows) ==
    IF resp.exc # "none" THEN {SchemaFailure(resp.exc)}
    ELSE IF resp.status_code = 200 THEN
        IF response_json(resp).raised
            THEN {SchemaFailure("JSONDecodeError")}
            ELSE analyse(IF resp.body = "rows" THEN rows ELSE << >>)
    ELSE {SchemaFailure("HTTP " \o ToString(resp.status_code))}

(***************************************************************************)
(* The rows a table can hold: samples of at most MaxRows rows drawn from   *)
(* RowPool, and one sample longer than the 5 rows that are read.           *)
(***************************************************************************)
R_1a == << Item("id", Val("int", "1")), Item("name", Val("str", "a")) >>
R_2b == << Item("id", Val("int", "2")), Item("name", Val("str", "b")) >>
R_3 == << Item("id", Val("int", "3")) >>
R_null == << Item("id", None), Item("name", Val("int", "1")) >>
R_x == << Item("name", Val("str", "c")), Item("id", Val("str", "x")) >>
R_float == << Item("id", Val("float", "1.5")) >>
R_true == << Item("id", Val("bool", "True")), Item("name", Val("dict", "{}")) >>
R_empty == << >>

RowPool == {R_1a, R_2b, R_3, R_null, R_x, R_float, R_true, R_empty}

ExampleRows == << R_1a, R_2b, R_3 >>

LongRows == << R_x, R_x, R_x, R_x, R_1a, R_3 >>

Samples == UNION {[1..n -> RowPool] : n \in 1..MaxRows} \cup {LongRows}

(***************************************************************************)
(* display_comprehensive_results (lines 376-439).                          *)
(***************************************************************************)
\* detailed_entries without the else branch of lines 414-422.
detailed_entries_of_success_only(table_name, schema_info) ==
    IF schema_info.success
        THEN << [name |-> table_name,
                 columns |-> schema_info.columns,
                 column_info |-> schema_info.column_info,
                 sample_data |-> schema_info.sample_data] >>
        ELSE << >>

\* Lines 399-422: what the loop body appends to detailed_accessible for one
\* table, given the result of its schema fetch.
detailed_entries(table_name, schema_info) ==
    IF schema_info.success
        THEN << [name |-> table_name,
                 columns |-> schema_info.columns,
                 column_info |-> schema_info.column_info,
                 sample_data |-> schema_info.sample_data] >>
        ELSE << [name |-> table_name,
                 columns |-> << >>,
                 column_info |-> EmptyDict,
                 sample_data |-> << >>] >>

(***************************************************************************)
(* main (lines 441-492).                                                   *)
(***************************************************************************)
\* Lines 475-485: the object written to the results file.
report_of(acc_tables, scan_res, intelligent) ==
    [accessible_tables |-> acc_tables,
     protected_tables |-> scan_res.protected,
     intelligent_discoveries |-> intelligent,
     summary |-> [total_accessible |-> Len(acc_tables),
                  total_protected |-> Len(scan_res.protected),
                  total_intelligent |-> Len(intelligent)]]

vars ==
    << seeds, common_tables, variations, transport, table_rows, results, i,
       batch, j, probe_log, progress, batches, events, scan_results,
       detailed_accessible,
       schema_log, accessible_tables, intelligent_results, confirmed_tables,
       discovery_log, report, selected_tables, backup_summary, backed_up,
       summary_file, pc >>

backup_vars == << selected_tables, backup_summary, backed_up, summary_file >>

scan_vars == << results, i, batch, j, probe_log, progress, batches, events >>
display_vars == << detailed_accessible, schema_log >>

discovery_vars == << confirmed_tables, discovery_log >>

main_vars ==
    << scan_results, display_vars, accessible_tables, intelligent_results,
       discovery_vars, report >>

NotStarted ==
    /\ results = EmptyResults
    /\ i = 0
    /\ batch = << >>
    /\ j = 1
    /\ probe_log = << >>
    /\ progress = << >>
    /\ batches = << >>
    /\ events = << >>
    /\ scan_results = << >>
    /\ detailed_accessible = << >>
    /\ schema_log = << >>
    /\ accessible_tables = << >>
    /\ intelligent_results = << >>
    /\ confirmed_tables = << >>
    /\ discovery_log = << >>
    /\ report = << >>

\* backup_tables has not been called.
NoBackup ==
    /\ selected_tables = << >>
    /\ backup_summary = << >>
    /\ backed_up = 0
    /\ summary_file = << >>

(***************************************************************************)
(* The constructor on its own, over the seed vocabularies of SeedLists.    *)
(***************************************************************************)
\* __init__ up to line 91: the vocabulary is assigned, not yet expanded.
InitGen ==
    /\ seeds \in SeedLists
    /\ common_tables = seeds
    /\ variations = {}
    /\ transport = Responses
    /\ table_rows = ExampleRows
    /\ NotStarted
    /\ NoBackup
    /\ pc = "construct"

\* __init__ line 94: self.generate_table_variations()
Construct ==
    /\ pc = "construct"
    /\ variations' = add_singular_forms(common_tables)
    /\ common_tables' = generate_table_variations(common_tables)
    /\ pc' = "constructed"
    /\ UNCHANGED << backup_vars, seeds, transport, table_rows, scan_vars, main_vars >>

NextGen == Construct

SpecGen == InitGen /\ [][NextGen]_vars

(***************************************************************************)
(* main from line 455 on, the scanner constructed.  The candidate list is  *)
(* the first names of a generated list: sorted and without duplicates, as  *)
(* line 121 leaves it.  The endpoint answers either with any response at   *)
(* each probe (short lists) or with the same response throughout (long     *)
(* lists, which take more than one batch).                                 *)
(***************************************************************************)
ScanSeeds == << S_accounts, S_data, S_posts >>

CandidatePool == generate_table_variations(ScanSeeds)

Init ==
    /\ seeds = ScanSeeds
    /\ variations = add_singular_forms(ScanSeeds)
    /\ \/ /\ transport = Responses
          /\ \E n \in 0..Min(MaxCandidates, Len(CandidatePool)) :
                common_tables = SubSeq(CandidatePool, 1, n)
       \/ /\ transport \in {{r} : r \in Responses}
          /\ \E n \in 0..Min(MaxLong, Len(CandidatePool)) :
                common_tables = SubSeq(CandidatePool, 1, n)
    /\ table_rows = ExampleRows
    /\ NotStarted
    /\ NoBackup
    /\ pc = "scan"

\* Lines 187-198: the scan is entered.
StartScan ==
    /\ pc = "scan"
    /\ results' = EmptyResults
    /\ i' = 0
    /\ pc' = "batch"
    /\ UNCHANGED << backup_vars, seeds, common_tables, variations, transport, table_rows,
                    batch, j, probe_log, progress, batches, events, main_vars >>

\* Lines 200-203: the outer loop takes its next batch and prints the progress.
NextBatch ==
    /\ pc = "batch"
    /\ i < Len(common_tables)
    /\ batch' = batch_slice(common_tables, i)
    /\ batches' = Append(batches, batch')
    /\ progress' = Append(progress, progress_line(i, Len(common_tables)))
    /\ events' = Append(events, Event("progress", << >>,
                                      progress_line(i, Len(common_tables)).index))
    /\ j' = 1
    /\ pc' = IF Len(batch') = 0 THEN "next" ELSE "probe"
    /\ UNCHANGED << backup_vars, seeds, common_tables, variations, transport, table_rows, results, i,
                    probe_log, main_vars >>

\* Lines 205-227: one table of the batch is probed and its result recorded.
\* An exception leaving check_table_exists would leave the scan and reach
\* main's except Exception (line 491).
Probe ==
    /\ pc = "probe"
    /\ \E resp \in transport :
        LET table_name == batch[j]
            result == check_table_exists(resp)
        IN  /\ probe_log' = Append(probe_log, [name |-> table_name, response |-> resp,
                                            result |-> result])
            /\ events' = events \o requests_get(table_name)
            /\ IF result.raised
                  THEN /\ pc' = "error"
                       /\ UNCHANGED results
                  ELSE /\ results' = record_result(results, table_name, result)
                       /\ pc' = "sleep"
    /\ UNCHANGED << backup_vars, seeds, common_tables, variations, transport, table_rows, i, batch, j,
                    progress, batches, main_vars >>

\* Line 230: time.sleep(0.1), then the inner loop's next table.
Sleep ==
    /\ pc = "sleep"
    /\ events' = events \o time_sleep
    /\ j' = j + 1
    /\ pc' = IF j + 1 > Len(batch) THEN "next" ELSE "probe"
    /\ UNCHANGED << backup_vars, seeds, common_tables, variations, transport, table_rows, results, i,
                    batch, probe_log, progress, batches, main_vars >>

\* Line 200: range's next value, the batch done.
EndBatch ==
    /\ pc = "next"
    /\ i' = i + batch_size
    /\ pc' = "batch"
    /\ UNCHANGED << backup_vars, seeds, common_tables, variations, transport, table_rows,
                    results, batch, j, probe_log, progress, batches, events,
                    main_vars >>

\* Lines 232 and 457: range exhausted, the scan returns results to main.
ScanReturn ==
    /\ pc = "batch"
    /\ i >= Len(common_tables)
    /\ scan_results' = << results >>
    /\ pc' = "display"
    /\ UNCHANGED << backup_vars, seeds, common_tables, variations, transport, table_rows,
                    scan_vars, display_vars, accessible_tables,
                    intelligent_results, discovery_vars, report >>

\* Lines 394-422: display_comprehensive_results' loop takes the next table of
\* scan_results['accessible'], fetches its schema and appends its entry.
DisplayTable ==
    /\ pc = "display"
    /\ Len(schema_log) < Len(scan_results[1].accessible)
    /\ LET table_name == scan_results[1].accessible[Len(schema_log) + 1].name
       IN  \E resp \in transport :
             \E schema_info \in get_table_schema_info(resp, table_rows) :
                /\ detailed_accessible' =
                      detailed_accessible \o detailed_entries(table_name, schema_info)
                /\ schema_log' =
                      Append(schema_log, [name |-> table_name, response |-> resp,
                                          schema_info |-> schema_info])
    /\ UNCHANGED << backup_vars, seeds, common_tables, variations, transport, table_rows,
                    scan_vars, scan_results, accessible_tables,
                    intelligent_results, discovery_vars, report, pc >>

\* Lines 439 and 460: the loop done, display_comprehensive_results returns
\* detailed_accessible to main.
DisplayReturn ==
    /\ pc = "display"
    /\ Len(schema_log) = Len(scan_results[1].accessible)
    /\ accessible_tables' = detailed_accessible
    /\ pc' = "discover"
    /\ UNCHANGED << backup_vars, seeds, common_tables, variations, transport, table_rows,
                    scan_vars, scan_results, display_vars, intelligent_results,
                    discovery_vars, report >>

\* Lines 308-313: intelligent_table_discovery probes its next guess.
DiscoverProbe ==
    /\ pc = "discover"
    /\ Len(discovery_log) < Len(intelligent_guesses)
    /\ LET table == intelligent_guesses[Len(discovery_log) + 1]
       IN  \E resp \in transport :
             /\ confirmed_tables' =
                    confirm(confirmed_tables, table, check_table_exists(resp))
             /\ discovery_log' = Append(discovery_log, table)
    /\ UNCHANGED << backup_vars, seeds, common_tables, variations, transport, table_rows,
                    scan_vars, scan_results, display_vars, accessible_tables,
                    intelligent_results, report, pc >>

\* Lines 315 and 463: the guesses done, intelligent_table_discovery returns
\* confirmed_tables to main.
DiscoverReturn ==
    /\ pc = "discover"
    /\ Len(discovery_log) = Len(intelligent_guesses)
    /\ intelligent_results' = confirmed_tables
    /\ pc' = "save"
    /\ UNCHANGED << backup_vars, seeds, common_tables, variations, transport, table_rows,
                    scan_vars, scan_results, display_vars, accessible_tables,
                    discovery_vars, report >>

\* Lines 471-487: the results file is written.
SaveReport ==
    /\ pc = "save"
    /\ report' = << report_of(accessible_tables, scan_results[1], intelligent_results) >>
    /\ pc' = "done"
    /\ UNCHANGED << backup_vars, seeds, common_tables, variations, transport, table_rows,
                    scan_vars, scan_results, display_vars, accessible_tables,
                    intelligent_results, discovery_vars >>

\* Lines 474 and 491-492: open() fails; main prints the error and ends.
SaveFails ==
    /\ pc = "save"
    /\ pc' = "error"
    /\ UNCHANGED << backup_vars, seeds, common_tables, variations, transport, table_rows,
                    scan_vars, main_vars >>

\* Lines 489-490: KeyboardInterrupt anywhere inside main's try block; main
\* prints "Scan interrupted by user." and ends.
Interrupt ==
    /\ pc \in {"scan", "batch", "probe", "sleep", "next", "display", "discover", "save"}
    /\ pc' = "interrupted"
    /\ UNCHANGED << backup_vars, seeds, common_tables, variations, transport, table_rows,
                    scan_vars, main_vars >>

\* The steps of comprehensive_table_scan.
ScanStep ==
    \/ StartScan
    \/ NextBatch
    \/ Probe
    \/ Sleep
    \/ EndBatch
    \/ ScanReturn

\* The steps the program takes by itself.
Step ==
    \/ ScanStep
    \/ DisplayTable
    \/ DisplayReturn
    \/ DiscoverProbe
    \/ DiscoverReturn
    \/ SaveReport
    \/ SaveFails

Next == Step \/ Interrupt

Spec == Init /\ [][Next]_vars

\* The scan up to its return to main, which keeps running until then: a
\* probe returns or times out (timeout=10, line 131) and the sleep of line
\* 230 ends.  The schema fetch of line 321 has no timeout, so nothing of the
\* kind holds of the steps after the scan.
NextScan == ScanStep \/ Interrupt

SpecFair == Init /\ [][NextScan]_vars /\ WF_vars(ScanStep)

(***************************************************************************)
(* main run on one table that answers every request with its rows, which  *)
(* are any sample of Samples: the schema inference over its inputs.        *)
(***************************************************************************)
InitSchema ==
    /\ seeds = ScanSeeds
    /\ variations = add_singular_forms(ScanSeeds)
    /\ common_tables = SubSeq(CandidatePool, 1, 1)
    /\ transport = {Response("none", 200, "rows")}
    /\ table_rows \in Samples
    /\ NotStarted
    /\ NoBackup
    /\ pc = "scan"

SpecSchema == InitSchema /\ [][Next]_vars

(***************************************************************************)
(* src/display-data.py: get_table_data (lines 127-189) and backup_tables   *)
(* (lines 351-458).  A status is a sequence of one-character strings, so   *)
(* that str.startswith is computed as the code computes it.                *)
(***************************************************************************)
\* str.startswith
startswith(s, prefix) ==
    /\ Len(s) >= Len(prefix)
    /\ SubSeq(s, 1, Len(prefix)) = prefix

\* The four values of 'status' (lines 401, 412, 423, 433).
Success == << "S", "u", "c", "c", "e", "s", "s" >>
PartialSuccess == << "P", "a", "r", "t", "i", "a", "l", " " >> \o Success
SuccessEmpty == Success \o << " ", "(", "E", "m", "p", "t", "y", ")" >>
Failed == << "F", "a", "i", "l", "e", "d" >>

TableData(success, data, rows_count, error) ==
    [success |-> success, data |-> data, count |-> rows_count, error |-> error]

\* Lines 127-189: the dict get_table_data returns when requests.get does resp
\* and a body with rows carries rows; both schema branches end the same way.
get_table_data(resp, rows) ==
    IF resp.exc # "none" THEN TableData(FALSE, << >>, 0, resp.exc)
    ELSE IF resp.status_code = 200 THEN
        IF response_json(resp).raised
            THEN TableData(FALSE, << >>, 0, "JSONDecodeError")
            ELSE LET data == IF resp.body = "rows" THEN rows ELSE << >>
                 IN  TableData(TRUE, data, Len(data), NoKey)
    ELSE TableData(FALSE, << >>, 0, "HTTP " \o ToString(resp.status_code))

SummaryEntry(table_info, status, records, files, error) ==
    [schema |-> table_info.schema, table |-> table_info.table, status |-> status,
     records |-> records, files |-> files, error |-> error]

\* Lines 379-438: what one pass of the loop appends to backup_summary, given
\* the table's data and whether the CSV export raises.
summary_entries(table_info, data, csv_raises) ==
    IF data.success THEN
        IF data.data # << >> THEN
            IF ~csv_raises
                THEN << SummaryEntry(table_info, Success, data.count,
                                     << "JSON", "CSV" >>, NoKey) >>
                ELSE << SummaryEntry(table_info, PartialSuccess, data.count,
                                     << "JSON" >>, "CSV export failed") >>
        ELSE << SummaryEntry(table_info, SuccessEmpty, 0, << "JSON" >>, NoKey) >>
    ELSE << SummaryEntry(table_info, Failed, 0, << >>, data.error) >>

\* Lines 445-451: the object written to backup_summary.json.
written_summary(selected, summary) ==
    [total_tables |-> Len(selected),
     successful_backups |->
        Cardinality({n \in 1..Len(summary) : startswith(summary[n].status, Success)}),
     failed_backups |->
        Cardinality({n \in 1..Len(summary) : summary[n].status = Failed}),
     tables |-> summary]

\* The tables the selector can offer, and the selections it can return
\* (lines 281-349: any list of them, a table more than once included).
TablePool ==
    {[schema |-> "public", table |-> "users"],
     [schema |-> "public", table |-> "orders"],
     [schema |-> "auth", table |-> "users"]}

Selections == UNION {[1..n -> TablePool] : n \in 0..MaxSelected}

\* backup_tables is called with a selection.
InitBackup ==
    /\ seeds = << >>
    /\ common_tables = << >>
    /\ variations = {}
    /\ transport = Responses
    /\ table_rows = ExampleRows
    /\ NotStarted
    /\ selected_tables \in Selections
    /\ backup_summary = << >>
    /\ backed_up = 0
    /\ summary_file = << >>
    /\ pc = "backup"

force_vars ==
    << seeds, common_tables, variations, transport, table_rows, scan_vars, main_vars >>

\* Lines 353-355: nothing selected, backup_tables returns.
BackupNothing ==
    /\ pc = "backup"
    /\ selected_tables = << >>
    /\ pc' = "backup_done"
    /\ UNCHANGED << force_vars, backup_vars >>

\* Lines 357-366: the backup directory is made, or os.makedirs raises and
\* the exception leaves backup_tables.
BackupStart ==
    /\ pc = "backup"
    /\ selected_tables # << >>
    /\ \E makedirs_raises \in BOOLEAN :
          pc' = IF makedirs_raises THEN "error" ELSE "backup_table"
    /\ backup_summary' = << >>
    /\ UNCHANGED << force_vars, selected_tables, backed_up, summary_file >>

\* Lines 368-438: one table of the selection is backed up.  Writing the JSON
\* file (lines 382-391) can raise, which leaves backup_tables.
BackupTable ==
    /\ pc = "backup_table"
    /\ backed_up < Len(selected_tables)
    /\ \E resp \in transport : \E json_raises \in BOOLEAN : \E csv_raises \in BOOLEAN :
          LET table_info == selected_tables[backed_up + 1]
              data == get_table_data(resp, table_rows)
          IN  IF data.success /\ json_raises
                  THEN /\ pc' = "error"
                       /\ UNCHANGED << backup_summary, backed_up >>
                  ELSE /\ backup_summary' =
                            backup_summary \o summary_entries(table_info, data, csv_raises)
                       /\ backed_up' = backed_up + 1
                       /\ pc' = "backup_table"
    /\ UNCHANGED << force_vars, selected_tables, summary_file >>

\* Lines 441-458: the loop done, the summary is written and backup_tables
\* returns.
BackupWriteSummary ==
    /\ pc = "backup_table"
    /\ backed_up = Len(selected_tables)
    /\ summary_file' = << written_summary(selected_tables, backup_summary) >>
    /\ pc' = "backup_done"
    /\ UNCHANGED << force_vars, selected_tables, backup_summary, backed_up >>

\* Line 444: open() raises, which leaves backup_tables.
BackupSummaryFails ==
    /\ pc = "backup_table"
    /\ backed_up = Len(selected_tables)
    /\ pc' = "error"
    /\ UNCHANGED << force_vars, backup_vars >>

\* KeyboardInterrupt while backup_tables runs.
BackupInterrupt ==
    /\ pc \in {"backup", "backup_table"}
    /\ pc' = "interrupted"
    /\ UNCHANGED << force_vars, backup_vars >>

NextBackup ==
    \/ BackupNothing
    \/ BackupStart
    \/ BackupTable
    \/ BackupWriteSummary
    \/ BackupSummaryFails
    \/ BackupInterrupt

SpecBackup == InitBackup /\ [][NextBackup]_vars

(***************************************************************************)
(* What the properties below read off the state.                           *)
(***************************************************************************)
NamesOf(entries) == [k \in 1..Len(entries) |-> entries[k].name]

Occurrences(s, x) == Cardinality({k \in 1..Len(s) : s[k] = x})

\* The names a results dict holds, over its four lists.
ReportedNames(res) ==
    NamesOf(res.accessible) \o NamesOf(res.protected)
        \o NamesOf(res.unknown) \o NamesOf(res.not_found)

RECURSIVE Flatten(_)
Flatten(ss) == IF ss = << >> THEN << >> ELSE Head(ss) \o Flatten(Tail(ss))

Ceil(n, d) == IF n % d = 0 THEN n \div d ELSE (n \div d) + 1

ScanReturned == scan_results # << >>

\* The raw signal of a response, in the spec's vocabulary.
SignalOf(resp) ==
    IF resp.exc = "Timeout" THEN "timeout"
    ELSE IF resp.exc # "none" THEN "transport-error"
    ELSE IF resp.status_code = 200 THEN
        (IF resp.body = "malformed" THEN "malformed-body" ELSE "success")
    ELSE IF resp.status_code = 401 THEN "authRequired"
    ELSE IF resp.status_code = 403 THEN "forbidden"
    ELSE IF resp.status_code = 404 THEN "notFound"
    ELSE "other"

\* The outcome class a returned dict stands for.
ClassOf(result) ==
    IF result.exists = "True" /\ result.accessible THEN "Accessible"
    ELSE IF result.exists = "True" THEN "Protected"
    ELSE IF result.exists = "False" THEN "Absent"
    ELSE "Indeterminate"

(***************************************************************************)
(* Properties.                                                             *)
(***************************************************************************)

\* C1: once the scan has returned, every candidate appears exactly once over
\* the four lists of the results, and a candidate whose probe answered 404
\* is in not_found.
C1_EveryCandidateReportedOnce ==
    ScanReturned =>
        /\ \A k \in 1..Len(common_tables) :
              Occurrences(ReportedNames(scan_results[1]), common_tables[k]) = 1
        /\ \A k \in 1..Len(probe_log) :
              SignalOf(probe_log[k].response) = "notFound"
                  => \E e \in 1..Len(scan_results[1].not_found) :
                        scan_results[1].not_found[e].name = probe_log[k].name

\* C2: once the scan has returned, a candidate whose probe answered another
\* status code, timed out or failed in transport is in unknown with its
\* error detail, and is not in protected.
C2_OtherOutcomesAreIndeterminate ==
    ScanReturned =>
        \A k \in 1..Len(probe_log) :
            SignalOf(probe_log[k].response) \in {"other", "timeout", "transport-error"}
                => /\ \E e \in 1..Len(scan_results[1].unknown) :
                        /\ scan_results[1].unknown[e].name = probe_log[k].name
                        /\ scan_results[1].unknown[e].error = probe_log[k].result.error
                        /\ scan_results[1].unknown[e].error # NoKey
                   /\ \A e \in 1..Len(scan_results[1].protected) :
                        scan_results[1].protected[e].name # probe_log[k].name

\* C3: check_table_exists returns for every raw signal, and its result stands
\* for Accessible on success, Protected on 401 and 403, Absent on 404, and
\* Indeterminate on a timeout, a transport error and a malformed body.
C3_OutcomeMapping ==
    \A k \in 1..Len(probe_log) :
        LET signal == SignalOf(probe_log[k].response)
            result == probe_log[k].result
        IN  /\ ~result.raised
            /\ signal = "success" => ClassOf(result) = "Accessible"
            /\ signal \in {"authRequired", "forbidden"} => ClassOf(result) = "Protected"
            /\ signal = "notFound" => ClassOf(result) = "Absent"
            /\ signal \in {"timeout", "transport-error", "malformed-body"}
                  => ClassOf(result) = "Indeterminate"

C3_Witness ==
    /\ Len(probe_log) = 2
    /\ SignalOf(probe_log[1].response) = "malformed-body"
    /\ SignalOf(probe_log[2].response) = "timeout"
    /\ pc = "sleep"

C5_InterruptedScanStillReports ==
    (pc = "interrupted" /\ ~ScanReturned /\ Len(probe_log) >= 1) =>
        /\ report # << >>
        /\ Len(report[1].accessible_tables) + Len(report[1].protected_tables)
              + Len(results.not_found) + Len(results.unknown)
              + (Len(common_tables) - Len(probe_log)) = Len(common_tables)

\* C6: the scan takes ceil(N / batch_size) batches, the batches in order make
\* up the candidate list, and the tables passed to check_table_exists are the
\* candidates, each once and in order; until then they are the first
\* candidates, none twice.
C6_BatchesPartitionCandidates ==
    /\ NamesOf(probe_log) = SubSeq(common_tables, 1, Len(probe_log))
    /\ ScanReturned =>
        /\ Len(batches) = Ceil(Len(common_tables), batch_size)
        /\ Len(progress) = Len(batches)
        /\ Flatten(batches) = common_tables
        /\ \A b \in 1..Len(batches) :
              Len(batches[b]) >= 1 /\ Len(batches[b]) <= batch_size
        /\ NamesOf(probe_log) = common_tables

C6_Witness ==
    /\ ScanReturned
    /\ Len(common_tables) = (2 * batch_size) + 1
    /\ Len(batches) = 3
    /\ Len(batches[3]) = 1

\* C7: no outcome of a probe ends the scan: the program reaches main's error
\* handler only after the scan has returned, a scan that has returned has
\* probed every candidate, and after every probe the scan goes on until it
\* returns, unless it is interrupted.
C7_NoProbeOutcomeAbortsScan ==
    /\ [](pc = "error" => ScanReturned)
    /\ [](ScanReturned => NamesOf(probe_log) = common_tables)
    /\ (pc = "sleep") ~> (ScanReturned \/ pc = "interrupted")

C7_Witness ==
    /\ ScanReturned
    /\ Len(probe_log) = 2
    /\ SignalOf(probe_log[1].response) = "transport-error"
    /\ SignalOf(probe_log[2].response) = "other"

\* C8: the generated candidate list contains every seed and no name twice.
C8_SupersetWithoutDuplicates ==
    pc = "constructed" =>
        /\ \A k \in 1..Len(seeds) : Occurrences(common_tables, seeds[k]) = 1
        /\ Cardinality(ToSet(common_tables)) = Len(common_tables)

C8_Witness ==
    /\ pc = "constructed"
    /\ Len(seeds) = 2
    /\ seeds[1] = seeds[2]
    /\ Occurrences(common_tables, seeds[1]) = 1

\* C9: for a seed ending in "ies" the candidates contain the seed with "ies"
\* rewritten to "y", and for a longer-than-3 seed ending in "s" but not in
\* "ies" they contain the seed without its last letter.
C9_SingularForms ==
    pc = "constructed" =>
        \A k \in 1..Len(seeds) :
            /\ endswith(seeds[k], << "i", "e", "s" >>)
                  => (DropLast(seeds[k], 3) \o << "y" >>) \in ToSet(common_tables)
            /\ (endswith(seeds[k], << "s" >>) /\ Len(seeds[k]) > 3
                  /\ ~endswith(seeds[k], << "i", "e", "s" >>))
                  => DropLast(seeds[k], 1) \in ToSet(common_tables)

\* A seed of at most 3 letters that ends in "s".
ShortPlural(table) == Len(table) <= 3 /\ endswith(table, << "s" >>)

\* C10 as stated: when every seed has at most 3 letters and ends in "s", the
\* singular step leaves the working set equal to the seed set.
C10_ShortSeedsGetNoSingular ==
    (pc = "constructed" /\ \A k \in 1..Len(seeds) : ShortPlural(seeds[k]))
        => variations = ToSet(seeds)

\* C10, amended: a seed of at most 3 letters that ends in "s" gets no singular
\* form, except the seed "ies", which gets "y": every name the singular step
\* adds is "y" for the seed "ies" or the singular form of a longer seed.
C10_ShortSeedsGetNoSingularButIes ==
    pc = "constructed" =>
        /\ \A x \in variations \ ToSet(seeds) :
              \/ x = << "y" >> /\ S_ies \in ToSet(seeds)
              \/ \E k \in 1..Len(seeds) :
                    /\ ~ShortPlural(seeds[k])
                    /\ x \in {DropLast(seeds[k], 1), DropLast(seeds[k], 3) \o << "y" >>}
        /\ S_ies \in ToSet(seeds) => << "y" >> \in variations

C10_Witness ==
    /\ pc = "constructed"
    /\ seeds = << S_as, S_bus >>
    /\ variations = {S_as, S_bus}

\* The names one pass of the transforms makes of a set of base names: each
\* base name, and each base name with one prefix or with one suffix.
SinglePass(base) ==
    base \cup {prefixes[k] \o t : k \in 1..Len(prefixes), t \in base}
         \cup {t \o suffixes[k] : k \in 1..Len(suffixes), t \in base}

\* C11: the transforms are applied in a single pass: every generated name is
\* a seed or a singular form, alone or with exactly one prefix or exactly one
\* suffix, every such name is generated, and so there are at most
\* (seeds + singulars) x (1 + prefixes + suffixes) names.
C11_TransformsAreSinglePass ==
    pc = "constructed" =>
        /\ ToSet(common_tables) = SinglePass(variations)
        /\ Len(common_tables)
              <= Cardinality(variations) * (1 + Len(prefixes) + Len(suffixes))

\* C12: within one run, intelligent_table_discovery passes to
\* check_table_exists no table that comprehensive_table_scan has passed to it.
C12_DiscoveryNeverReprobes ==
    \A g \in 1..Len(discovery_log) :
        \A k \in 1..Len(probe_log) : discovery_log[g] # probe_log[k].name

\* The anchor whose related names a guess belongs to.
AnchorsOf(guess) ==
    (IF guess \in ToSet(related_to_profiles) THEN {profiles} ELSE {})
    \cup (IF guess \in ToSet(related_to_payments) THEN {payments} ELSE {})

\* C13: intelligent_table_discovery probes a related name only if its anchor
\* is among the tables the scan of this run found accessible, and probes
\* nothing when no anchor is.
C13_DiscoveryFollowsAccessibleAnchors ==
    \A g \in 1..Len(discovery_log) :
        \E a \in AnchorsOf(discovery_log[g]) :
            a \in ToSet(NamesOf(scan_results[1].accessible))

\* C14: the report main writes carries a count for each of the accessible,
\* protected and indeterminate classes, each the number of candidates the
\* scan placed in that class, and lists the unknown tables beside the
\* accessible and the protected ones.
C14_ReportCountsEveryClass ==
    report # << >> =>
        LET summary == report[1].summary
            res == scan_results[1]
        IN  /\ summary.total_accessible = Len(res.accessible)
            /\ summary.total_protected = Len(res.protected)
            /\ \E key \in DOMAIN summary
                        \ {"total_accessible", "total_protected", "total_intelligent"} :
                    summary[key] = Len(res.unknown)
            /\ NamesOf(report[1].accessible_tables) = NamesOf(res.accessible)
            /\ report[1].protected_tables = res.protected
            /\ \E key \in DOMAIN report[1]
                        \ {"accessible_tables", "protected_tables",
                           "intelligent_discoveries", "summary"} :
                    report[1][key] = res.unknown

\* The results of the schema fetches that returned a schema.
Inferred == {schema_log[k].schema_info : k \in {n \in 1..Len(schema_log) :
                                                  schema_log[n].schema_info.success}}

\* C15: a field present in every sampled row is flagged fully-populated and
\* any other field partially-populated; for the rows [{id:1,name:a},
\* {id:2,name:b},{id:3}] id is fully-populated of type integer and name is
\* partially-populated of type string with the examples [a, b].
C15_FieldsFlaggedByPresence ==
    \A info \in Inferred :
        /\ \A col \in DOMAIN info.column_info :
              \E key \in DOMAIN info.column_info[col] \ {"type", "sample_values"} :
                  info.column_info[col][key]
                      = (\A n \in 1..Len(info.sample_data) :
                            col \in ToSet(keys(info.sample_data[n])))
        /\ info.sample_data = ExampleRows =>
              /\ info.column_info["id"].type = "int"
              /\ info.column_info["name"].type = "str"
              /\ info.column_info["name"].sample_values
                    = << Val("str", "a"), Val("str", "b") >>

\* C16: every field name that occurs in any row of the sample, not only in
\* row 0, is in columns and in column_info.
C16_FieldsOfEveryRow ==
    \A info \in Inferred :
        LET observed == UNION {ToSet(keys(info.sample_data[n]))
                               : n \in 1..Len(info.sample_data)}
        IN  /\ ToSet(info.columns) = observed
            /\ DOMAIN info.column_info = observed

\* The classification order: boolean, integer, floating-point, string,
\* structured.
ClassificationOrder == << "bool", "int", "float", "str", "dict", "list" >>

Precedence(t) == CHOOSE n \in 1..Len(ClassificationOrder) : ClassificationOrder[n] = t

\* C17: the type reported for a field is the type of most votes among its
\* sampled non-null values, and of the types of most votes the one earliest
\* in the classification order, so that a sample has one result.
C17_DominantTypeByVotesThenOrder ==
    \A info \in Inferred :
        \A col \in DOMAIN info.column_info :
            LET sample_values == sample_values_of(col, info.sample_data)
                votes == [n \in 1..Len(sample_values) |-> sample_values[n].type]
                reported == info.column_info[col].type
            IN  sample_values # << >> =>
                    /\ \A t \in ToSet(votes) : count(votes, t) <= count(votes, reported)
                    /\ \A t \in ToSet(votes) :
                          count(votes, t) = count(votes, reported)
                              => Precedence(reported) <= Precedence(t)

\* The places of the events of one kind, and how many of them come up to a place.
PlacesOf(kind) == {p \in 1..Len(events) : events[p].kind = kind}

CountUpTo(kind, p) == Cardinality({q \in PlacesOf(kind) : q <= p})

\* The scan is running, or has just returned to main.
InScan ==
    \/ pc \in {"scan", "batch", "probe", "sleep", "next"}
    \/ pc = "display" /\ schema_log = << >>

\* C18: at every point of the scan and at its return, a request has been
\* answered before anything else happened, so that at most one probe is in
\* flight; a sleep follows every probe before the next probe, the next
\* batch's progress line or the return of the scan; and the progress lines
\* are one per batch, numbered 1, 2, ... up to ceil(N / B), each before
\* every probe of its batch.
C18_DelayAfterEveryProbeAndProgressInOrder ==
    InScan =>
        /\ \A p \in PlacesOf("request") :
              /\ p < Len(events)
              /\ events[p + 1].kind = "response"
              /\ events[p + 1].name = events[p].name
        /\ \A p \in 1..Len(events) :
              CountUpTo("request", p) - CountUpTo("response", p) \in {0, 1}
        /\ \A p \in PlacesOf("response") :
              IF p = Len(events) THEN pc = "sleep"
              ELSE events[p + 1].kind = "sleep"
        /\ \A p \in PlacesOf("request") : \A q \in PlacesOf("request") :
              p < q => \E r \in PlacesOf("sleep") : p < r /\ r < q
        /\ \A p \in PlacesOf("progress") :
              events[p].index = CountUpTo("progress", p)
        /\ ScanReturned =>
              Cardinality(PlacesOf("progress")) = Ceil(Len(common_tables), batch_size)
        /\ \A p \in PlacesOf("request") :
              LET b == ((CountUpTo("request", p) - 1) \div batch_size) + 1
              IN  /\ \E q \in PlacesOf("progress") : q < p /\ events[q].index = b
                  /\ events[p].name = common_tables[CountUpTo("request", p)]

C18_Witness ==
    /\ InScan
    /\ ScanReturned
    /\ Len(common_tables) = (2 * batch_size) + 1
    /\ Cardinality(PlacesOf("sleep")) = Len(common_tables)
    /\ Cardinality(PlacesOf("progress")) = 3
    /\ events[Len(events)].kind = "sleep"
    /\ events[Len(events) - 3].kind = "progress"

\* A response of status 200 whose body is an empty record collection.
EmptySuccess(resp) == resp.exc = "none" /\ resp.status_code = 200 /\ resp.body = "empty"

\* C19: a table whose probe answers 200 with an empty collection is
\* accessible, and the schema of a table whose fetch answers 200 with an
\* empty collection is a success with no column, an empty column_info and
\* no error.
C19_EmptyCollectionIsAccessibleWithoutColumns ==
    /\ \A k \in 1..Len(probe_log) :
          EmptySuccess(probe_log[k].response) =>
              /\ ClassOf(probe_log[k].result) = "Accessible"
              /\ probe_log[k].name \in ToSet(NamesOf(results.accessible))
    /\ \A k \in 1..Len(schema_log) :
          EmptySuccess(schema_log[k].response) =>
              LET info == schema_log[k].schema_info
              IN  /\ info.success
                  /\ info.error = NoKey
                  /\ info.columns = << >>
                  /\ DOMAIN info.column_info = {}
                  /\ info.sample_count = 0
                  /\ detailed_accessible[k].columns = << >>

C19_Witness ==
    /\ Len(probe_log) = 1
    /\ EmptySuccess(probe_log[1].response)
    /\ Len(schema_log) = 1
    /\ EmptySuccess(schema_log[1].response)
    /\ schema_log[1].schema_info.success
    /\ pc = "discover"

\* display_comprehensive_results has returned to main.
DisplayReturned == pc \in {"discover", "save", "done"}

\* A schema fetch that ends in a status other than 200 or in an exception.
FailedFetch(resp) ==
    resp.exc # "none" \/ resp.status_code # 200 \/ resp.body = "malformed"

\* C20: display_comprehensive_results appends one entry for each table of
\* scan_results['accessible'] it has come to, in order and under the table's
\* name, whether the schema fetch succeeds or fails; the entry of a failed
\* fetch has empty columns, column_info and sample_data; no fetch ends the
\* display, which returns an entry for every accessible table.
C20_OneEntryPerAccessibleTable ==
    /\ Len(detailed_accessible) = Len(schema_log)
    /\ \A k \in 1..Len(detailed_accessible) :
          /\ detailed_accessible[k].name = scan_results[1].accessible[k].name
          /\ FailedFetch(schema_log[k].response) =>
                /\ ~schema_log[k].schema_info.success
                /\ detailed_accessible[k].columns = << >>
                /\ DOMAIN detailed_accessible[k].column_info = {}
                /\ detailed_accessible[k].sample_data = << >>
    /\ pc = "error" =>
          ScanReturned /\ Len(schema_log) = Len(scan_results[1].accessible)
    /\ DisplayReturned =>
          /\ accessible_tables = detailed_accessible
          /\ NamesOf(accessible_tables) = NamesOf(scan_results[1].accessible)

C20_Witness ==
    /\ pc = "discover"
    /\ Len(accessible_tables) = 2
    /\ FailedFetch(schema_log[1].response)
    /\ ~FailedFetch(schema_log[2].response)
    /\ accessible_tables[1].columns = << >>
    /\ accessible_tables[2].columns = << "id", "name" >>

\* C21: once backup_tables has written its summary for a non-empty
\* selection, backup_summary holds one entry for each selected table, in
\* order, and in the written summary successful_backups + failed_backups =
\* total_tables, whatever the outcome of each table was.
C21_SummaryCountsAddUp ==
    (summary_file # << >> /\ selected_tables # << >>) =>
        /\ Len(backup_summary) = Len(selected_tables)
        /\ \A n \in 1..Len(backup_summary) :
              /\ backup_summary[n].schema = selected_tables[n].schema
              /\ backup_summary[n].table = selected_tables[n].table
        /\ summary_file[1].tables = backup_summary
        /\ summary_file[1].total_tables = Len(selected_tables)
        /\ summary_file[1].successful_backups + summary_file[1].failed_backups
              = summary_file[1].total_tables
====
